---- MODULE Spec2Model ----
(***************************************************************************)
(* Model of the o3_mutant server: the relational store (server/storage.ts  *)
(* over shared/schema.ts), the GithubService singleton (server/github.ts)  *)
(* and the request handlers (server/github-routes.ts, registerRoutes).     *)
(*                                                                         *)
(* A handler is a sequence of steps, one per awaited operation: the effect *)
(* of the awaited database statement or GitHub call happens together with  *)
(* the handler's continuation up to its next await.  Of the timestamps     *)
(* only lastAnalyzed is modelled: new Date() is the number of requests     *)
(* accepted so far, null is 0.                                             *)
(***************************************************************************)
EXTENDS Integers, Sequences, FiniteSets, TLC

\* Number of requests the server accepts in one run of the model.
MaxRequests == 5

\* Request slots: requests that can be in flight at the same time.
Slots == {1, 2}

\* --------------------------------------------------------------- values
NaN == -1
NoToken == ""
NoUrl == ""
Undefined == "undefined"

\* An :id path parameter as the client sent it: the decimal numeral of an
\* id, a text without leading digits, or a numeral followed by other text.
IdStrings == <<"1", "2", "3", "4", "5", "6", "7", "8">>

\* parseInt reads the leading digits and stops at the first other
\* character; without leading digits it gives NaN.
parseInt(param) ==
  IF param = "abc" THEN NaN
  ELSE IF param = "1abc" THEN 1
  ELSE CHOOSE i \in 1 .. Len(IdStrings) : IdStrings[i] = param

Usernames == {"alice"}
Tokens == {"tokA", "tokB"}
Urls == {"https://github/commit/1", "https://github/commit/2"}

NoCred == [id |-> 0, username |-> "", token |-> NoToken]
NoRepoInfo == [owner |-> "", repo |-> "", branch |-> ""]
NoRepo == [id |-> 0, credentialsId |-> 0, owner |-> "", repo |-> "", defaultBranch |-> "",
           summary |-> "", lastAnalyzed |-> 0]
NoFile == [id |-> 0, repositoryId |-> 0, path |-> "", content |-> "",
           commitMessage |-> "", status |-> "", commitUrl |-> NoUrl]
NoCall == [op |-> "", token |-> NoToken, target |-> NoRepoInfo,
           path |-> "", content |-> "", message |-> ""]
NoResult == [success |-> FALSE, url |-> Undefined]

\* Bodies a client posts (after zod parsing, which strips unknown keys).
CredentialBodies == {[id |-> 0, username |-> u, token |-> t] : u \in Usernames, t \in Tokens}
RepoCoordinates == {[owner |-> "o1", repo |-> "r1", defaultBranch |-> "main"],
                    [owner |-> "o2", repo |-> "r2", defaultBranch |-> "dev"]}
FileBodies ==
  {[path |-> f.path, content |-> f.content, commitMessage |-> f.commitMessage,
    status |-> x.status, commitUrl |-> x.commitUrl] :
     f \in {[path |-> "a.ts", content |-> "x", commitMessage |-> "m1"],
            [path |-> "b.ts", content |-> "y", commitMessage |-> "m2"]},
     x \in {[status |-> "undefined", commitUrl |-> "undefined"],
            [status |-> "merged", commitUrl |-> "https://elsewhere"]}}

Statuses == {"pending", "committed", "failed"}

\* The messages array of a chat request: a sequence of {role, content}
\* ("" for a missing or empty field) or null elements, or no array at all.
NotAnArray == <<[role |-> "not an array", content |-> ""]>>
NullMessage == [role |-> "null", content |-> "null"]
ChatMessages == {[role |-> r, content |-> c] :
                   r \in {"user", "assistant", "tool", ""}, c \in {"hello", ""}}
                  \cup {NullMessage}
ChatBodies == {NotAnArray, << >>} \cup {<<m>> : m \in ChatMessages}
                 \cup {<<[role |-> "user", content |-> "first"], m>> : m \in ChatMessages}
NoMessage == [role |-> "", content |-> ""]

\* What the LLM answers: a completion (its first choice's content, "" for
\* none) or an error with a vendor status (0 for an error without one).
Completions == {"", "reply"}
VendorErrors == {401, 429, 500, 503, 0}

VARIABLES
  chatSessions,        \* rows of chat_sessions
  sessionSeq,          \* last value of its serial id
  messages,            \* rows of messages
  messageSeq,
  openaiKey,           \* whether process.env.OPENAI_API_KEY is configured
  systemPrompts,       \* rows of system_prompts
  promptSeq,
  githubCredentials,   \* rows of github_credentials
  credSeq,             \* last value of its serial id
  githubRepositories,  \* rows of github_repositories
  repoSeq,
  githubFileChanges,   \* rows of github_file_changes
  fileSeq,
  githubService,       \* the module singleton: octokit, credentials, currentRepo
  reqs,                \* per slot: the request being served and its locals
  served               \* requests accepted so far

vars == <<chatSessions, sessionSeq, messages, messageSeq, openaiKey,
          systemPrompts, promptSeq,
          githubCredentials, credSeq, githubRepositories, repoSeq,
          githubFileChanges, fileSeq, githubService, reqs, served>>

chat == <<chatSessions, sessionSeq, messages, messageSeq, openaiKey>>

github == <<githubCredentials, credSeq, githubRepositories, repoSeq,
            githubFileChanges, fileSeq>>

prompts == <<systemPrompts, promptSeq>>

rest == <<chat, prompts>>

store == <<chat, prompts, github>>

NoPrompt == [id |-> 0, name |-> "", content |-> "", isDefault |-> "undefined"]
NoPromptRow == [id |-> 0, name |-> "", content |-> "", isDefault |-> FALSE]

\* registerRoutes creates the default prompt when the table holds none.
DefaultPrompt == [id |-> 1, name |-> "Default Prompt", content |-> "Astra", isDefault |-> TRUE]

\* The chat sessions and messages stored when a chat request arrived.
NoChatStore == [chatSessions |-> {}, messages |-> {}]

IdleReq == [kind |-> "idle", pc |-> "idle", param |-> "", id |-> 0,
            cred |-> NoCred, repo |-> NoRepo,
            fc |-> NoFile, result |-> NoResult, call |-> NoCall,
            initialized |-> FALSE, calls |-> 0,
            llmFailed |-> FALSE, llmStatus |-> 0, completion |-> "",
            msgs |-> << >>, reply |-> "", prompt |-> NoPrompt,
            session |-> [name |-> "undefined"],
            status |-> 0, body |-> "", fcOut |-> NoFile,
            before |-> NoChatStore, json |-> {}, thrown |-> FALSE]

InitStore ==
  /\ chatSessions = {}
  /\ sessionSeq = 0
  /\ messages = {}
  /\ messageSeq = 0
  /\ systemPrompts = {DefaultPrompt}
  /\ promptSeq = 1
  /\ githubCredentials = {}
  /\ credSeq = 0
  /\ githubRepositories = {}
  /\ repoSeq = 0
  /\ githubFileChanges = {}
  /\ fileSeq = 0
  /\ githubService = [octokit |-> NoToken, credentials |-> NoCred, currentRepo |-> NoRepoInfo]
  /\ reqs = [s \in Slots |-> IdleReq]
  /\ served = 0

Init == InitStore /\ openaiKey \in BOOLEAN

\* The GitHub and prompt handlers do not read the key.
InitKeySet == InitStore /\ openaiKey = TRUE

\* ---------------------------------------------------------------- store
\* server/storage.ts over the tables of shared/schema.ts.  A lookup returns
\* the row, or the No* row for undefined.

\* const [row] = await db.select()...where(eq(table.id, id)), and the
\* .returning() of an insert or update.
\* The select without its where clause: the first row of the table.
RowOfAny(rows, id, none) ==
  IF rows # {} THEN CHOOSE r \in rows : TRUE ELSE none

RowOf(rows, id, none) ==
  IF \E r \in rows : r.id = id THEN CHOOSE r \in rows : r.id = id ELSE none

getGithubCredentials(id) == RowOf(githubCredentials, id, NoCred)

getGithubRepository(id) == RowOf(githubRepositories, id, NoRepo)

getGithubFileChange(id) == RowOf(githubFileChanges, id, NoFile)

\* new Date(), defaultNow(): the number of requests accepted so far.
now == served

\* defaultNow() of created_at and updated_at: the rows of a table are stamped
\* in the order of their inserts.
insertedAt(seq) == seq + 1

createGithubCredentials(credentials) ==
  githubCredentials \cup
    {[id |-> credSeq + 1, username |-> credentials.username, token |-> credentials.token,
      createdAt |-> insertedAt(credSeq), updatedAt |-> insertedAt(credSeq)]}

\* The rows returned as they are stored.
safeCredentialsWhole(credentials) == credentials

\* credentials.map(cred => ({ id, username, createdAt, updatedAt }))
safeCredentials(credentials) ==
  {[id |-> c.id, username |-> c.username,
    createdAt |-> c.createdAt, updatedAt |-> c.updatedAt] : c \in credentials}

\* res.status(201).json({ id, username, createdAt }) of the inserted row
createdCredentials(credentials) ==
  {[id |-> c.id, username |-> c.username, createdAt |-> c.createdAt] :
     c \in {d \in credentials : d.id = credSeq + 1}}

createGithubRepository(repository) ==
  githubRepositories \cup
    {[id |-> repoSeq + 1, credentialsId |-> repository.credentialsId,
      owner |-> repository.owner, repo |-> repository.repo,
      defaultBranch |-> repository.defaultBranch,
      summary |-> "", lastAnalyzed |-> 0]}

\* A schema that also lets status and commitUrl through.
insertGithubFileChangeSchemaWide(body) ==
  [id |-> 0, repositoryId |-> body.repositoryId, path |-> body.path,
   content |-> body.content, commitMessage |-> body.commitMessage,
   status |-> body.status, commitUrl |-> body.commitUrl]

\* insertGithubFileChangeSchema.parse: the schema picks repositoryId, path,
\* content and commitMessage, and parsing drops every other key of the body.
insertGithubFileChangeSchema(body) ==
  [id |-> 0, repositoryId |-> body.repositoryId, path |-> body.path,
   content |-> body.content, commitMessage |-> body.commitMessage,
   status |-> Undefined, commitUrl |-> Undefined]

\* A column the inserted values leave out takes its default: status
\* 'pending', commit_url null.
createGithubFileChange(fileChange) ==
  githubFileChanges \cup
    {[id |-> fileSeq + 1, repositoryId |-> fileChange.repositoryId,
      path |-> fileChange.path, content |-> fileChange.content,
      commitMessage |-> fileChange.commitMessage,
      status |-> IF fileChange.status = Undefined THEN "pending" ELSE fileChange.status,
      commitUrl |-> IF fileChange.commitUrl = Undefined THEN NoUrl
                    ELSE fileChange.commitUrl]}

\* The update with status and commitUrl written to each other's column.
updateGithubFileChangeStatusSwapped(id, status, commitUrl) ==
  {IF f.id = id
   THEN [f EXCEPT !.status = IF commitUrl = Undefined THEN @ ELSE commitUrl,
                  !.commitUrl = status]
   ELSE f : f \in githubFileChanges}

\* The update without commitUrl in its set clause.
updateGithubFileChangeStatusNoUrl(id, status, commitUrl) ==
  {IF f.id = id THEN [f EXCEPT !.status = status] ELSE f : f \in githubFileChanges}

\* The update without its where clause.
updateGithubFileChangeStatusAllRows(id, status, commitUrl) ==
  {[f EXCEPT !.status = status,
             !.commitUrl = IF commitUrl = Undefined THEN @ ELSE commitUrl] :
     f \in githubFileChanges}

\* The update writing 'committed' whatever status it is given.
updateGithubFileChangeStatusCommitted(id, status, commitUrl) ==
  {IF f.id = id
   THEN [f EXCEPT !.status = "committed",
                  !.commitUrl = IF commitUrl = Undefined THEN @ ELSE commitUrl]
   ELSE f : f \in githubFileChanges}

\* .set({status, commitUrl, updatedAt}): a key whose value is undefined is
\* left out of the UPDATE, so the column keeps its value.
updateGithubFileChangeStatus(id, status, commitUrl) ==
  {IF f.id = id
   THEN [f EXCEPT !.status = status,
                  !.commitUrl = IF commitUrl = Undefined THEN @ ELSE commitUrl]
   ELSE f : f \in githubFileChanges}

\* The summary update with the reply dropped: it stores the empty text.
updateGithubRepositorySummaryBlank(id, summary) ==
  {IF r.id = id THEN [r EXCEPT !.summary = "", !.lastAnalyzed = now] ELSE r :
     r \in githubRepositories}

\* .set({ summary, lastAnalyzed: new Date(), updatedAt: new Date() })
\* .where(eq(githubRepositories.id, id))
updateGithubRepositorySummary(id, summary) ==
  {IF r.id = id THEN [r EXCEPT !.summary = summary, !.lastAnalyzed = now] ELSE r :
     r \in githubRepositories}

deleteGithubCredentials(id) == {c \in githubCredentials : c.id # id}

deleteGithubRepository(id) == {r \in githubRepositories : r.id # id}

deleteGithubFileChange(id) == {f \in githubFileChanges : f.id # id}

\* references(() => githubCredentials.id, { onDelete: 'cascade' })
cascadeRepositories(credentials) ==
  {r \in githubRepositories : \E c \in credentials : c.id = r.credentialsId}

\* The foreign key without its cascade.
cascadeFileChangesNone(repositories) == githubFileChanges

\* references(() => githubRepositories.id, { onDelete: 'cascade' })
cascadeFileChanges(repositories) ==
  {f \in githubFileChanges : \E r \in repositories : r.id = f.repositoryId}

\* -------------------------------------------------------- GithubService
\* initialize, up to its await of users.getAuthenticated
initializeBegin(credentials) ==
  [githubService EXCEPT
     !.credentials = [id |-> 0, username |-> credentials.username, token |-> credentials.token],
     !.octokit = credentials.token]

\* The catch branch leaving the client in place.
initializeFailedKeepsClient ==
  [githubService EXCEPT !.credentials = NoCred]

\* initialize, catch branch
initializeFailed ==
  [githubService EXCEPT !.octokit = NoToken, !.credentials = NoCred]

setRepository(service, repoInfo) == [service EXCEPT !.currentRepo = repoInfo]

\* the guard every repository operation starts with
clientReady(service) ==
  service.octokit # NoToken /\ service.currentRepo # NoRepoInfo

RepoInfoOf(r) == [owner |-> r.owner, repo |-> r.repo, branch |-> r.defaultBranch]

\* A call made without the client's token.
githubCallAnonymous(service, op, path, content, message) ==
  [op |-> op, token |-> NoToken, target |-> service.currentRepo,
   path |-> path, content |-> content, message |-> message]

\* A call made without the content of the file.
githubCallNoContent(service, op, path, content, message) ==
  [op |-> op, token |-> service.octokit, target |-> service.currentRepo,
   path |-> path, content |-> "", message |-> message]

\* A GitHub call is made with the client and the repository the service
\* holds when the call is made.
githubCall(service, op, path, content, message) ==
  [op |-> op, token |-> service.octokit, target |-> service.currentRepo,
   path |-> path, content |-> content, message |-> message]

\* ------------------------------------------------------------- requests
InFlight(s) == reqs[s].pc \notin {"idle", "done"}

CanBegin(s) == ~InFlight(s) /\ served < MaxRequests

NewReq(kind, pc, id) == [IdleReq EXCEPT !.kind = kind, !.pc = pc, !.id = id]

ParamReq(kind, pc, param) ==
  [NewReq(kind, pc, parseInt(param)) EXCEPT !.param = param]

\* res.status(status).json({ message }) for an error, res.status(204).end(),
\* or res.status(status).json(row).
responseBody(status) ==
  IF status >= 400 THEN "message" ELSE IF status = 204 THEN "" ELSE "json"

\* A finished request keeps what the response shows and, of its locals,
\* the path parameter, the request body of a prompt or session request and
\* the count of vendor calls.
Respond(r, status) ==
  [IdleReq EXCEPT !.kind = r.kind, !.pc = "done", !.param = r.param, !.id = r.id,
                  !.status = status, !.body = responseBody(status),
                  !.prompt = r.prompt, !.session = r.session, !.calls = r.calls,
                  !.before = r.before]

RespondFile(r, status, row) == [Respond(r, status) EXCEPT !.fcOut = row]

Begin(s, r) == /\ CanBegin(s)
               /\ served' = served + 1
               /\ reqs' = [reqs EXCEPT ![s] = r]

Continue(s, r) == /\ reqs' = [reqs EXCEPT ![s] = r]
                  /\ UNCHANGED served

\* The :id parameters clients send: the ids drawn so far, the next one,
\* and two texts that are not numerals.
Params(seq) == {IdStrings[i] : i \in 1 .. (seq + 1)} \cup {"abc", "1abc"}

\* --------------------------------------------- credentials and repositories
\* POST /api/github/credentials: parse the body, start initialize.
PostCredentials(s) ==
  \E body \in CredentialBodies :
    /\ Begin(s, [NewReq("postCredentials", "auth", 0) EXCEPT !.cred = body])
    /\ githubService' = initializeBegin(body)
    /\ UNCHANGED store

\* The handler going on to the insert whatever users.getAuthenticated said.
CredentialsAuthIgnored(s) ==
  /\ reqs[s].kind = "postCredentials" /\ reqs[s].pc = "auth"
  /\ \/ /\ githubService' = initializeFailed
        /\ Continue(s, [reqs[s] EXCEPT !.pc = "insert"])
     \/ /\ Continue(s, [reqs[s] EXCEPT !.pc = "insert", !.initialized = TRUE])
        /\ UNCHANGED githubService
  /\ UNCHANGED store

\* users.getAuthenticated answers; on success the insert is issued.
CredentialsAuth(s) ==
  /\ reqs[s].kind = "postCredentials" /\ reqs[s].pc = "auth"
  /\ \/ /\ githubService' = initializeFailed
        /\ Continue(s, Respond(reqs[s], 401))
     \/ /\ Continue(s, [reqs[s] EXCEPT !.pc = "insert", !.initialized = TRUE])
        /\ UNCHANGED githubService
  /\ UNCHANGED store

InsertCredentials(s) ==
  /\ reqs[s].kind = "postCredentials" /\ reqs[s].pc = "insert"
  /\ githubCredentials' = createGithubCredentials(reqs[s].cred)
  /\ credSeq' = credSeq + 1
  /\ Continue(s, [Respond(reqs[s], 201) EXCEPT
                    !.json = createdCredentials(createGithubCredentials(reqs[s].cred))])
  /\ UNCHANGED <<rest, githubRepositories, repoSeq, githubFileChanges, fileSeq, githubService>>

\* GET /api/github/credentials: every row, without its token.
GetCredentials(s) ==
  /\ Begin(s, [Respond(NewReq("getCredentials", "", 0), 200) EXCEPT
                 !.json = safeCredentials(githubCredentials)])
  /\ UNCHANGED <<store, githubService>>

\* DELETE /api/github/credentials/:id
DeleteCredentials(s) ==
  \E param \in Params(credSeq) :
    LET id == parseInt(param) IN
    /\ IF id = NaN
       THEN /\ Begin(s, Respond(ParamReq("deleteCredentials", "", param), 400))
            /\ UNCHANGED store
       ELSE /\ Begin(s, Respond(ParamReq("deleteCredentials", "", param), 204))
            /\ githubCredentials' = deleteGithubCredentials(id)
            /\ githubRepositories' = cascadeRepositories(githubCredentials')
            /\ githubFileChanges' = cascadeFileChanges(githubRepositories')
            /\ UNCHANGED <<rest, credSeq, repoSeq, fileSeq>>
    /\ UNCHANGED githubService

\* POST /api/github/repositories: parse the body, look the credentials up,
\* start initialize.
PostRepository(s) ==
  \E c \in 1 .. (credSeq + 1), coords \in RepoCoordinates :
    LET body == [id |-> 0, credentialsId |-> c, owner |-> coords.owner,
                 repo |-> coords.repo, defaultBranch |-> coords.defaultBranch]
        credentials == getGithubCredentials(c)
        r == [NewReq("postRepository", "auth", 0) EXCEPT !.repo = body]
    IN  /\ IF credentials = NoCred
           THEN /\ Begin(s, Respond(r, 404))
                /\ UNCHANGED githubService
           ELSE /\ Begin(s, [r EXCEPT !.cred = credentials])
                /\ githubService' = initializeBegin(credentials)
        /\ UNCHANGED store

\* users.getAuthenticated answers; on success setRepository and
\* getRepositoryInfo up to its await of repos.get.
RepositoryAuth(s) ==
  /\ reqs[s].kind = "postRepository" /\ reqs[s].pc = "auth"
  /\ \/ /\ githubService' = initializeFailed
        /\ Continue(s, Respond(reqs[s], 401))
     \/ LET service == setRepository(githubService, RepoInfoOf(reqs[s].repo))
        IN  /\ githubService' = service
            /\ IF clientReady(service)
               THEN Continue(s, [reqs[s] EXCEPT
                      !.pc = "repoInfo", !.initialized = TRUE,
                      !.call = githubCall(service, "repos.get", "", "", "")])
               ELSE Continue(s, Respond(reqs[s], 404))
  /\ UNCHANGED store

\* repos.get answers; on success the insert is issued.
RepositoryInfo(s) ==
  /\ reqs[s].kind = "postRepository" /\ reqs[s].pc = "repoInfo"
  /\ \/ Continue(s, Respond(reqs[s], 404))
     \/ Continue(s, [reqs[s] EXCEPT !.pc = "insert",
                                     !.result = [success |-> TRUE, url |-> Undefined]])
  /\ UNCHANGED <<store, githubService>>

\* The insert: credentials_id must reference a row (a failed insert has
\* still drawn its serial value).
InsertRepository(s) ==
  /\ reqs[s].kind = "postRepository" /\ reqs[s].pc = "insert"
  /\ repoSeq' = repoSeq + 1
  /\ IF getGithubCredentials(reqs[s].repo.credentialsId) # NoCred
     THEN /\ githubRepositories' = createGithubRepository(reqs[s].repo)
          /\ Continue(s, Respond(reqs[s], 201))
     ELSE /\ UNCHANGED githubRepositories
          /\ Continue(s, Respond(reqs[s], 500))
  /\ UNCHANGED <<rest, githubCredentials, credSeq, githubFileChanges, fileSeq, githubService>>

\* DELETE /api/github/repositories/:id
DeleteRepository(s) ==
  \E param \in Params(repoSeq) :
    LET id == parseInt(param) IN
    /\ IF id = NaN
       THEN /\ Begin(s, Respond(ParamReq("deleteRepository", "", param), 400))
            /\ UNCHANGED store
       ELSE /\ Begin(s, Respond(ParamReq("deleteRepository", "", param), 204))
            /\ githubRepositories' = deleteGithubRepository(id)
            /\ githubFileChanges' = cascadeFileChanges(githubRepositories')
            /\ UNCHANGED <<rest, githubCredentials, credSeq, repoSeq, fileSeq>>
    /\ UNCHANGED githubService

\* ----------------------------------------------------------- file changes
\* POST /api/github/repositories/:id/files: look the repository up, parse
\* {...req.body, repositoryId: id}, issue the insert.
PostFile(s) ==
  \E param \in Params(repoSeq), body \in FileBodies :
    LET id == parseInt(param)
        r == ParamReq("postFile", "insert", param)
        validatedData ==
          insertGithubFileChangeSchema(
            [repositoryId |-> id, path |-> body.path, content |-> body.content,
             commitMessage |-> body.commitMessage, status |-> body.status,
             commitUrl |-> body.commitUrl])
    IN  /\ IF id = NaN
           THEN Begin(s, Respond(r, 400))
           ELSE IF getGithubRepository(id) = NoRepo
           THEN Begin(s, Respond(r, 404))
           ELSE Begin(s, [r EXCEPT !.fc = validatedData])
        /\ UNCHANGED <<store, githubService>>

\* The insert: repository_id must reference a row.
InsertFile(s) ==
  /\ reqs[s].kind = "postFile" /\ reqs[s].pc = "insert"
  /\ fileSeq' = fileSeq + 1
  /\ IF getGithubRepository(reqs[s].fc.repositoryId) # NoRepo
     THEN /\ githubFileChanges' = createGithubFileChange(reqs[s].fc)
          /\ Continue(s, RespondFile(reqs[s], 201, RowOf(githubFileChanges', fileSeq + 1, NoFile)))
     ELSE /\ UNCHANGED githubFileChanges
          /\ Continue(s, Respond(reqs[s], 500))
  /\ UNCHANGED <<rest, githubCredentials, credSeq, githubRepositories, repoSeq, githubService>>

\* DELETE /api/github/files/:id
DeleteFile(s) ==
  \E param \in Params(fileSeq) :
    LET id == parseInt(param) IN
    /\ IF id = NaN
       THEN /\ Begin(s, Respond(ParamReq("deleteFile", "", param), 400))
            /\ UNCHANGED githubFileChanges
       ELSE /\ Begin(s, Respond(ParamReq("deleteFile", "", param), 204))
            /\ githubFileChanges' = deleteGithubFileChange(id)
    /\ UNCHANGED <<rest, githubCredentials, credSeq, githubRepositories, repoSeq,
                   fileSeq, githubService>>

\* POST /api/github/files/:id/commit: look the file change up.
PostCommit(s) ==
  \E param \in Params(fileSeq) :
    LET id == parseInt(param)
        r == ParamReq("commit", "getRepository", param)
        fileChange == getGithubFileChange(id)
    IN  /\ IF id = NaN
           THEN Begin(s, Respond(r, 400))
           ELSE IF fileChange = NoFile
           THEN Begin(s, Respond(r, 404))
           ELSE Begin(s, [r EXCEPT !.fc = fileChange])
        /\ UNCHANGED <<store, githubService>>

CommitGetRepository(s) ==
  /\ reqs[s].kind = "commit" /\ reqs[s].pc = "getRepository"
  /\ LET repository == getGithubRepository(reqs[s].fc.repositoryId)
     IN  IF repository = NoRepo
         THEN Continue(s, Respond(reqs[s], 404))
         ELSE Continue(s, [reqs[s] EXCEPT !.pc = "getCredentials", !.repo = repository])
  /\ UNCHANGED <<store, githubService>>

\* The credentials are read and initialize starts.
CommitGetCredentials(s) ==
  /\ reqs[s].kind = "commit" /\ reqs[s].pc = "getCredentials"
  /\ LET credentials == getGithubCredentials(reqs[s].repo.credentialsId)
     IN  IF credentials = NoCred
         THEN /\ Continue(s, Respond(reqs[s], 404))
              /\ UNCHANGED githubService
         ELSE /\ Continue(s, [reqs[s] EXCEPT !.pc = "auth", !.cred = credentials])
              /\ githubService' = initializeBegin(credentials)
  /\ UNCHANGED store

\* The handler marking the file change failed when the token is rejected.
CommitAuthMarksFailed(s) ==
  /\ reqs[s].kind = "commit" /\ reqs[s].pc = "auth"
  /\ \/ /\ githubService' = initializeFailed
        /\ githubFileChanges' =
             updateGithubFileChangeStatus(reqs[s].id, "failed", Undefined)
        /\ Continue(s, Respond(reqs[s], 401))
     \/ LET service == setRepository(githubService, RepoInfoOf(reqs[s].repo))
        IN  /\ githubService' = service
            /\ UNCHANGED githubFileChanges
            /\ IF clientReady(service)
               THEN Continue(s, [reqs[s] EXCEPT
                      !.pc = "getContent", !.initialized = TRUE,
                      !.call = githubCall(service, "repos.getContent",
                                          reqs[s].fc.path, "", "")])
               ELSE Continue(s, Respond(reqs[s], 500))
  /\ UNCHANGED <<rest, githubCredentials, credSeq, githubRepositories, repoSeq, fileSeq>>

\* users.getAuthenticated answers; on success setRepository and commitFile
\* up to its await of repos.getContent.  commitFile throws when the client
\* or the repository is not set, which the handler's catch answers 500.
CommitAuth(s) ==
  /\ reqs[s].kind = "commit" /\ reqs[s].pc = "auth"
  /\ \/ /\ githubService' = initializeFailed
        /\ Continue(s, Respond(reqs[s], 401))
     \/ LET service == setRepository(githubService, RepoInfoOf(reqs[s].repo))
        IN  /\ githubService' = service
            /\ IF clientReady(service)
               THEN Continue(s, [reqs[s] EXCEPT
                      !.pc = "getContent", !.initialized = TRUE,
                      !.call = githubCall(service, "repos.getContent",
                                          reqs[s].fc.path, "", "")])
               ELSE Continue(s, Respond(reqs[s], 500))
  /\ UNCHANGED store

\* repos.getContent answers (with or without a sha), and
\* repos.createOrUpdateFileContents is called.  With the client or the
\* repository gone the call throws inside commitFile's try: success false.
CommitGetContent(s) ==
  /\ reqs[s].kind = "commit" /\ reqs[s].pc = "getContent"
  /\ IF clientReady(githubService)
     THEN Continue(s, [reqs[s] EXCEPT
            !.pc = "write", !.calls = @ + 1,
            !.call = githubCall(githubService, "repos.createOrUpdateFileContents",
                                reqs[s].fc.path, reqs[s].fc.content,
                                reqs[s].fc.commitMessage)])
     ELSE Continue(s, [reqs[s] EXCEPT !.pc = "updateStatus", !.result = NoResult])
  /\ UNCHANGED <<store, githubService>>

\* repos.createOrUpdateFileContents answers: { success: true, url } or,
\* from the catch, { success: false }.  The status update is issued.
CommitWrite(s) ==
  /\ reqs[s].kind = "commit" /\ reqs[s].pc = "write"
  /\ \/ \E url \in Urls :
          Continue(s, [reqs[s] EXCEPT !.pc = "updateStatus",
                                      !.result = [success |-> TRUE, url |-> url]])
     \/ Continue(s, [reqs[s] EXCEPT !.pc = "updateStatus", !.result = NoResult])
  /\ UNCHANGED <<store, githubService>>

\* The status update and the response.
CommitUpdateStatus(s) ==
  /\ reqs[s].kind = "commit" /\ reqs[s].pc = "updateStatus"
  /\ IF ~reqs[s].result.success
     THEN /\ githubFileChanges' = updateGithubFileChangeStatus(reqs[s].id, "failed", Undefined)
          /\ Continue(s, Respond(reqs[s], 500))
     ELSE /\ githubFileChanges' =
               updateGithubFileChangeStatus(reqs[s].id, "committed", reqs[s].result.url)
          /\ Continue(s, RespondFile(reqs[s], 200, RowOf(githubFileChanges', reqs[s].id, NoFile)))
  /\ UNCHANGED <<rest, githubCredentials, credSeq, githubRepositories, repoSeq,
                 fileSeq, githubService>>

\* ------------------------------------------------- reads, analyze, assist
\* GET /api/github/repositories/:id
GetRepository(s) ==
  \E param \in Params(repoSeq) :
    LET id == parseInt(param)
        r == ParamReq("getRepository", "", param)
    IN  /\ IF id = NaN
           THEN Begin(s, Respond(r, 400))
           ELSE IF getGithubRepository(id) = NoRepo
           THEN Begin(s, Respond(r, 404))
           ELSE Begin(s, Respond(r, 200))
        /\ UNCHANGED <<store, githubService>>

\* GET /api/github/repositories/:id/files: the rows of that repository,
\* none when there is no such repository.
GetFiles(s) ==
  \E param \in Params(repoSeq) :
    LET id == parseInt(param)
        r == ParamReq("getFiles", "", param)
    IN  /\ IF id = NaN
           THEN Begin(s, Respond(r, 400))
           ELSE Begin(s, Respond(r, 200))
        /\ UNCHANGED <<store, githubService>>

\* What generateRepositorySummary returns: the JSON text of the collected
\* repository data.
RepoData == "{name, structure, readme, dependencies}"

\* The first choice's content of the analyze and assist completions: none,
\* a JSON text, or a text that is not JSON.
JsonCompletions == {"", "{json}", "not json"}

\* let aiSummary = repoData; if (... choices[0].message.content) aiSummary = it
aiSummary(repoData, content) == IF content # "" THEN content ELSE repoData

\* POST /api/github/repositories/:id/analyze: look the repository up.
PostAnalyze(s) ==
  \E param \in Params(repoSeq) :
    LET id == parseInt(param)
        r == ParamReq("analyze", "getCredentials", param)
        repository == getGithubRepository(id)
    IN  /\ IF id = NaN
           THEN Begin(s, Respond(r, 400))
           ELSE IF repository = NoRepo
           THEN Begin(s, Respond(r, 404))
           ELSE Begin(s, [r EXCEPT !.repo = repository])
        /\ UNCHANGED <<store, githubService>>

\* POST /api/github/assist: repositoryId and prompt are required; the
\* repository is looked up by parseInt(repositoryId), and a lookup by NaN
\* is refused by the database, which the catch answers 500.
PostAssist(s) ==
  \E repositoryId \in Params(repoSeq) \cup {Undefined}, prompt \in {Undefined, "fix it"},
     fileContext \in {<< >>, <<"a.ts">>} :
    LET r == [NewReq("assist", "getCredentials", 0) EXCEPT
                !.param = repositoryId, !.msgs = fileContext]
    IN  /\ IF repositoryId = Undefined \/ prompt = Undefined
           THEN Begin(s, Respond(r, 400))
           ELSE LET id == parseInt(repositoryId)
                    repository == getGithubRepository(id)
                IN  IF id = NaN
                    THEN Begin(s, Respond(r, 500))
                    ELSE IF repository = NoRepo
                    THEN Begin(s, Respond([r EXCEPT !.id = id], 404))
                    ELSE Begin(s, [r EXCEPT !.id = id, !.repo = repository])
        /\ UNCHANGED <<store, githubService>>

\* analyze and assist: the credentials are read and initialize starts.
AnalysisGetCredentials(s) ==
  /\ reqs[s].kind \in {"analyze", "assist"} /\ reqs[s].pc = "getCredentials"
  /\ LET credentials == getGithubCredentials(reqs[s].repo.credentialsId)
     IN  IF credentials = NoCred
         THEN /\ Continue(s, Respond(reqs[s], 404))
              /\ UNCHANGED githubService
         ELSE /\ Continue(s, [reqs[s] EXCEPT !.pc = "auth", !.cred = credentials])
              /\ githubService' = initializeBegin(credentials)
  /\ UNCHANGED store

\* analyze: users.getAuthenticated answers; on success setRepository and
\* generateRepositorySummary up to its await of repos.get.
AnalyzeAuth(s) ==
  /\ reqs[s].kind = "analyze" /\ reqs[s].pc = "auth"
  /\ \/ /\ githubService' = initializeFailed
        /\ Continue(s, Respond(reqs[s], 401))
     \/ LET service == setRepository(githubService, RepoInfoOf(reqs[s].repo))
        IN  /\ githubService' = service
            /\ IF clientReady(service)
               THEN Continue(s, [reqs[s] EXCEPT
                      !.pc = "repoInfo", !.initialized = TRUE,
                      !.call = githubCall(service, "repos.get", "", "", "")])
               ELSE Continue(s, Respond(reqs[s], 500))
  /\ UNCHANGED store

\* analyze: repos.get answers; a failure is rethrown to the handler's
\* catch, after a success getRepositoryContents asks for the root.
AnalyzeRepoInfo(s) ==
  /\ reqs[s].kind = "analyze" /\ reqs[s].pc = "repoInfo"
  /\ \/ Continue(s, Respond(reqs[s], 500))
     \/ IF clientReady(githubService)
        THEN Continue(s, [reqs[s] EXCEPT
               !.pc = "contents",
               !.call = githubCall(githubService, "repos.getContent", "", "", "")])
        ELSE Continue(s, Respond(reqs[s], 500))
  /\ UNCHANGED <<store, githubService>>

\* analyze: the root listing answers; a failure is rethrown.  The reads of
\* the directories, README.md and package.json that follow catch their own
\* failures, so the repository data is returned and the completion is
\* requested.
AnalyzeContents(s) ==
  /\ reqs[s].kind = "analyze" /\ reqs[s].pc = "contents"
  /\ \/ Continue(s, Respond(reqs[s], 500))
     \/ Continue(s, [reqs[s] EXCEPT !.pc = "llm", !.calls = @ + 1, !.reply = RepoData])
  /\ UNCHANGED <<store, githubService>>

\* analyze: the completion answers; aiSummary is chosen and the summary
\* update is issued.
AnalyzeCompletion(s) ==
  /\ reqs[s].kind = "analyze" /\ reqs[s].pc = "llm"
  /\ \/ Continue(s, Respond(reqs[s], 500))
     \/ \E content \in JsonCompletions :
          Continue(s, [reqs[s] EXCEPT !.pc = "update", !.completion = content])
  /\ UNCHANGED <<store, githubService>>

\* analyze: the summary update and the response.
AnalyzeUpdate(s) ==
  /\ reqs[s].kind = "analyze" /\ reqs[s].pc = "update"
  /\ githubRepositories' =
       updateGithubRepositorySummary(reqs[s].id, aiSummary(reqs[s].reply, reqs[s].completion))
  /\ Continue(s, Respond(reqs[s], 200))
  /\ UNCHANGED <<rest, githubCredentials, credSeq, repoSeq, githubFileChanges, fileSeq,
                 githubService>>

\* assist: users.getAuthenticated answers; on success setRepository, then
\* getFileContent for the file of fileContext (when the client is not ready
\* it throws inside the loop's try), or with no file the completion request.
AssistAuth(s) ==
  /\ reqs[s].kind = "assist" /\ reqs[s].pc = "auth"
  /\ \/ /\ githubService' = initializeFailed
        /\ Continue(s, Respond(reqs[s], 401))
     \/ LET service == setRepository(githubService, RepoInfoOf(reqs[s].repo))
            r == [reqs[s] EXCEPT !.initialized = TRUE]
        IN  /\ githubService' = service
            /\ IF Len(r.msgs) > 0 /\ clientReady(service)
               THEN Continue(s, [r EXCEPT
                      !.pc = "fileContent",
                      !.call = githubCall(service, "repos.getContent", r.msgs[1], "", "")])
               ELSE Continue(s, [r EXCEPT !.pc = "llm", !.calls = @ + 1])
  /\ UNCHANGED store

\* assist: repos.getContent answers, with the file or with a failure the
\* loop catches; the completion is requested.
AssistFileContent(s) ==
  /\ reqs[s].kind = "assist" /\ reqs[s].pc = "fileContent"
  /\ Continue(s, [reqs[s] EXCEPT !.pc = "llm", !.calls = @ + 1])
  /\ UNCHANGED <<store, githubService>>

\* assist: the completion answers: 200 with the parsed reply; 500 when the
\* request failed, when there is no content or when it is not JSON.
AssistCompletion(s) ==
  /\ reqs[s].kind = "assist" /\ reqs[s].pc = "llm"
  /\ \/ Continue(s, Respond(reqs[s], 500))
     \/ \E content \in JsonCompletions :
          Continue(s, Respond(reqs[s], IF content = "{json}" THEN 200 ELSE 500))
  /\ UNCHANGED <<store, githubService>>

\* ------------------------------------------------------ sessions and chat
NoSession == [id |-> 0, name |-> ""]

getChatSession(id) == RowOf(chatSessions, id, NoSession)

\* Bodies of POST and PATCH /api/sessions: name left out, a string, or a
\* JSON number.
NumberValue == "(number) 42"
SessionBodies == {[name |-> n] : n \in {"undefined", "renamed", NumberValue}}

\* insertChatSessionSchema.parse: name is an optional string.
insertChatSessionSchema(body) == body.name # NumberValue

\* A number bound to a text column is sent as its decimal text.
textParameter(value) == IF value = NumberValue THEN "42" ELSE value

\* name defaults to 'New Chat'
createChatSession(session) ==
  chatSessions \cup
    {[id |-> sessionSeq + 1,
      name |-> IF session.name = Undefined THEN "New Chat" ELSE textParameter(session.name)]}

\* .set({ ...sessionData, updatedAt: new Date() }).where(eq(chatSessions.id, id))
updateChatSession(id, sessionData) ==
  {IF c.id = id
   THEN [c EXCEPT !.name = IF sessionData.name = Undefined THEN @
                            ELSE textParameter(sessionData.name)]
   ELSE c : c \in chatSessions}

deleteChatSession(id) == {c \in chatSessions : c.id # id}

\* The foreign key without its cascade.
cascadeMessagesNone(sessions) == messages

\* references(() => chatSessions.id, { onDelete: 'cascade' })
cascadeMessages(sessions) ==
  {m \in messages : \E c \in sessions : c.id = m.sessionId}

\* timestamp: defaultNow(), the rows stamped in the order of their inserts
createMessage(message) ==
  messages \cup {[id |-> messageSeq + 1, sessionId |-> message.sessionId,
                  role |-> message.role, content |-> message.content,
                  timestamp |-> insertedAt(messageSeq)]}

\* .orderBy(column): the rows as a sequence, smallest timestamp first
RECURSIVE orderByTimestamp(_)
orderByTimestamp(rows) ==
  IF rows = {} THEN << >>
  ELSE LET first == CHOOSE m \in rows : \A n \in rows : m.timestamp <= n.timestamp
       IN  <<first>> \o orderByTimestamp(rows \ {first})

\* select().from(messages).where(eq(messages.sessionId, sessionId))
\*   .orderBy(messages.timestamp)
getMessagesForSession(sessionId) ==
  orderByTimestamp({m \in messages : m.sessionId = sessionId})

\* POST /api/sessions
PostSession(s) ==
  \E body \in SessionBodies :
    /\ IF ~insertChatSessionSchema(body)
       THEN /\ Begin(s, Respond([NewReq("postSession", "", 0) EXCEPT !.session = body], 400))
            /\ UNCHANGED <<chatSessions, sessionSeq>>
       ELSE /\ Begin(s, Respond([NewReq("postSession", "", sessionSeq + 1)
                                   EXCEPT !.session = body], 201))
            /\ chatSessions' = createChatSession(body)
            /\ sessionSeq' = sessionSeq + 1
    /\ UNCHANGED <<messages, messageSeq, openaiKey, prompts, github, githubService>>

\* PATCH /api/sessions/:id: req.body is passed on as it is.
PatchSession(s) ==
  \E param \in Params(sessionSeq), body \in SessionBodies :
    LET id == parseInt(param)
        r == [ParamReq("patchSession", "", param) EXCEPT !.session = body]
    IN  /\ IF id = NaN
           THEN /\ Begin(s, Respond(r, 400))
                /\ UNCHANGED chatSessions
           ELSE /\ chatSessions' = updateChatSession(id, body)
                /\ Begin(s, Respond(r, IF getChatSession(id) = NoSession THEN 404 ELSE 200))
        /\ UNCHANGED <<sessionSeq, messages, messageSeq, openaiKey, prompts, github,
                       githubService>>

\* GET /api/sessions/:id
GetSession(s) ==
  \E param \in Params(sessionSeq) :
    LET id == parseInt(param)
        r == ParamReq("getSession", "", param)
    IN  /\ IF id = NaN
           THEN Begin(s, Respond(r, 400))
           ELSE IF getChatSession(id) = NoSession
           THEN Begin(s, Respond(r, 404))
           ELSE Begin(s, Respond(r, 200))
        /\ UNCHANGED <<store, githubService>>

\* DELETE /api/sessions/:id
DeleteSession(s) ==
  \E param \in Params(sessionSeq) :
    LET id == parseInt(param) IN
    /\ IF id = NaN
       THEN /\ Begin(s, Respond(ParamReq("deleteSession", "", param), 400))
            /\ UNCHANGED <<chatSessions, messages>>
       ELSE /\ Begin(s, Respond(ParamReq("deleteSession", "", param), 204))
            /\ chatSessions' = deleteChatSession(id)
            /\ messages' = cascadeMessages(chatSessions')
    /\ UNCHANGED <<sessionSeq, messageSeq, openaiKey, prompts, github, githubService>>

\* The catch passing on whatever status the error carries.
chatErrorStatusPassThrough(status) == IF status = 0 THEN 500 ELSE status

\* The handler's catch: the vendor's status for 401, 429 and 500, else 500.
chatErrorStatus(status) == IF status \in {401, 429, 500} THEN status ELSE 500

\* The checks POST /api/chat makes on req.body.messages, element by element:
\* 400, or 0 to go on.  Reading the role of a null element throws, which the
\* catch answers as an error without a status.
chatValidation(msgs) ==
  IF msgs = NotAnArray THEN 400
  ELSE LET rejected == {i \in 1 .. Len(msgs) :
                          \/ msgs[i] = NullMessage
                          \/ msgs[i].role = "" \/ msgs[i].content = ""
                          \/ msgs[i].role \notin {"user", "assistant", "system"}}
       IN  IF rejected = {} THEN 0
           ELSE IF msgs[CHOOSE i \in rejected : \A j \in rejected : i <= j] = NullMessage
           THEN chatErrorStatus(0)
           ELSE 400

\* The key check throwing instead of answering, with no catch around it.
chatCallLLMUncaught(r) ==
  IF openaiKey THEN [r EXCEPT !.pc = "llm", !.calls = @ + 1] ELSE [r EXCEPT !.pc = "thrown"]

\* After the session is known: the API key check, then the LLM call.
chatCallLLM(r) ==
  IF openaiKey THEN [r EXCEPT !.pc = "llm", !.calls = @ + 1] ELSE Respond(r, 500)

\* A catch that asks for the completion once more before it gives up.
chatFailedRetry(r, status) ==
  IF r.calls < 2 THEN [r EXCEPT !.calls = @ + 1]
  ELSE [Respond(r, chatErrorStatus(status)) EXCEPT !.llmFailed = TRUE, !.llmStatus = status]

\* The catch block after the completion request has thrown with the
\* vendor's status.
chatFailed(r, status) ==
  [Respond(r, chatErrorStatus(status)) EXCEPT !.llmFailed = TRUE, !.llmStatus = status]

\* POST /api/chat: validation (a refused request keeps the messages it was
\* sent); with a sessionId (any the client sends) the
\* key check and the LLM call, without one the session insert.
PostChat(s) ==
  \E msgs \in ChatBodies, sessionId \in 0 .. (sessionSeq + 1) :
    LET r == [NewReq("chat", "createSession", sessionId) EXCEPT
                !.msgs = msgs,
                !.before = [chatSessions |-> chatSessions, messages |-> messages]]
    IN  /\ IF chatValidation(msgs) # 0
           THEN Begin(s, [Respond(r, chatValidation(msgs)) EXCEPT !.msgs = msgs])
           ELSE IF sessionId = 0
           THEN Begin(s, r)
           ELSE Begin(s, chatCallLLM(r))
        /\ UNCHANGED <<store, githubService>>

ChatCreateSession(s) ==
  /\ reqs[s].kind = "chat" /\ reqs[s].pc = "createSession"
  /\ chatSessions' = createChatSession([name |-> "New Chat"])
  /\ sessionSeq' = sessionSeq + 1
  /\ Continue(s, chatCallLLM([reqs[s] EXCEPT !.id = sessionSeq + 1]))
  /\ UNCHANGED <<messages, messageSeq, openaiKey, prompts, github, githubService>>

\* The reply stored also when it is empty.
chatAfterUserAlways(r) == [r EXCEPT !.pc = "saveAssistant"]

\* What follows a stored user message, or none: the reply is stored when it
\* is not empty, and the response is 200.
chatAfterUser(r) ==
  IF r.reply # "" THEN [r EXCEPT !.pc = "saveAssistant"] ELSE Respond(r, 200)

\* The LLM answers.  With an empty messages array messages[length - 1] is
\* undefined and reading its role throws.
ChatCompletion(s) ==
  /\ reqs[s].kind = "chat" /\ reqs[s].pc = "llm"
  /\ \/ \E e \in VendorErrors : Continue(s, chatFailed(reqs[s], e))
     \/ \E content \in Completions :
          LET r == [reqs[s] EXCEPT !.reply = content]
          IN  IF Len(r.msgs) = 0
              THEN Continue(s, Respond(r, chatErrorStatus(0)))
              ELSE IF r.msgs[Len(r.msgs)].role = "user"
              THEN Continue(s, [r EXCEPT !.pc = "saveUser"])
              ELSE Continue(s, chatAfterUser(r))
  /\ UNCHANGED <<store, githubService>>

\* An insert into messages: session_id must reference a row, else the
\* insert throws and the catch answers 500.
ChatSaveUser(s) ==
  /\ reqs[s].kind = "chat" /\ reqs[s].pc = "saveUser"
  /\ messageSeq' = messageSeq + 1
  /\ IF getChatSession(reqs[s].id) # NoSession
     THEN /\ messages' = createMessage([sessionId |-> reqs[s].id, role |-> "user",
                           content |-> reqs[s].msgs[Len(reqs[s].msgs)].content])
          /\ Continue(s, chatAfterUser(reqs[s]))
     ELSE /\ UNCHANGED messages
          /\ Continue(s, Respond(reqs[s], chatErrorStatus(0)))
  /\ UNCHANGED <<chatSessions, sessionSeq, openaiKey, prompts, github, githubService>>

ChatSaveAssistant(s) ==
  /\ reqs[s].kind = "chat" /\ reqs[s].pc = "saveAssistant"
  /\ messageSeq' = messageSeq + 1
  /\ IF getChatSession(reqs[s].id) # NoSession
     THEN /\ messages' = createMessage([sessionId |-> reqs[s].id, role |-> "assistant",
                                        content |-> reqs[s].reply])
          /\ Continue(s, Respond(reqs[s], 200))
     ELSE /\ UNCHANGED messages
          /\ Continue(s, Respond(reqs[s], chatErrorStatus(0)))
  /\ UNCHANGED <<chatSessions, sessionSeq, openaiKey, prompts, github, githubService>>

\* ---------------------------------------------------------- system prompts
\* Bodies of POST and PATCH /api/prompts: name and isDefault may be left
\* out ("undefined"); a POST body without content does not parse.
PromptBodies ==
  {[id |-> 0, name |-> n, content |-> c, isDefault |-> d] :
     n \in {"undefined", "mine"}, c \in {"undefined", "text"},
     d \in {"undefined", "true", "false"}}

\* The clearing update with its filter inverted: it clears nothing.
clearDefaultsWhereFalse ==
  {IF ~p.isDefault THEN [p EXCEPT !.isDefault = FALSE] ELSE p : p \in systemPrompts}

\* if (prompt.isDefault): db.update(systemPrompts).set({ isDefault: false })
\*                          .where(eq(systemPrompts.isDefault, true))
clearDefaults == {[p EXCEPT !.isDefault = FALSE] : p \in systemPrompts}

\* The insert with isDefault not among the inserted columns.
insertSystemPromptNoFlag(prompt) ==
  systemPrompts \cup
    {[id |-> promptSeq + 1,
      name |-> IF prompt.name = "undefined" THEN "Custom Prompt" ELSE prompt.name,
      content |-> prompt.content,
      isDefault |-> FALSE]}

\* db.insert(systemPrompts).values(prompt): columns left out take their
\* defaults, name 'Custom Prompt' and is_default false.
insertSystemPrompt(prompt) ==
  systemPrompts \cup
    {[id |-> promptSeq + 1,
      name |-> IF prompt.name = "undefined" THEN "Custom Prompt" ELSE prompt.name,
      content |-> prompt.content,
      isDefault |-> (prompt.isDefault = "true")]}

\* db.update(systemPrompts).set(promptData).where(eq(systemPrompts.id, id)):
\* keys left out keep their values.
setSystemPrompt(id, promptData) ==
  {IF p.id = id
   THEN [p EXCEPT
           !.name = IF promptData.name = "undefined" THEN @ ELSE promptData.name,
           !.content = IF promptData.content = "undefined" THEN @ ELSE promptData.content,
           !.isDefault = IF promptData.isDefault = "undefined" THEN @
                         ELSE (promptData.isDefault = "true")]
   ELSE p : p \in systemPrompts}

\* The delete without its where clause.
removeSystemPromptAll(id) == {p \in systemPrompts : FALSE}

removeSystemPrompt(id) == {p \in systemPrompts : p.id # id}

promptFrame == <<chat, github, githubService>>

\* POST /api/prompts: parse the body; createSystemPrompt starts with the
\* clearing update when isDefault is set, else with the insert.
PostPrompt(s) ==
  \E body \in PromptBodies :
    LET r == [NewReq("postPrompt", "insert", 0) EXCEPT !.prompt = body]
    IN  /\ IF body.content = "undefined"
           THEN Begin(s, Respond(r, 400))
           ELSE IF body.isDefault = "true"
           THEN Begin(s, [r EXCEPT !.pc = "clearDefaults"])
           ELSE Begin(s, r)
        /\ UNCHANGED <<prompts, promptFrame>>

\* PATCH /api/prompts/:id: req.body is passed on as it is.
PatchPrompt(s) ==
  \E param \in Params(promptSeq), body \in PromptBodies :
    LET id == parseInt(param)
        r == [ParamReq("patchPrompt", "update", param) EXCEPT !.prompt = body]
    IN  /\ IF id = NaN
           THEN Begin(s, Respond(r, 400))
           ELSE IF body.isDefault = "true"
           THEN Begin(s, [r EXCEPT !.pc = "clearDefaults"])
           ELSE Begin(s, r)
        /\ UNCHANGED <<prompts, promptFrame>>

\* The clearing update of createSystemPrompt and updateSystemPrompt.
PromptClearDefaults(s) ==
  /\ reqs[s].kind \in {"postPrompt", "patchPrompt"} /\ reqs[s].pc = "clearDefaults"
  /\ systemPrompts' = clearDefaults
  /\ Continue(s, [reqs[s] EXCEPT
                    !.pc = IF reqs[s].kind = "postPrompt" THEN "insert" ELSE "update"])
  /\ UNCHANGED <<promptSeq, promptFrame>>

PromptInsert(s) ==
  /\ reqs[s].kind = "postPrompt" /\ reqs[s].pc = "insert"
  /\ systemPrompts' = insertSystemPrompt(reqs[s].prompt)
  /\ promptSeq' = promptSeq + 1
  /\ Continue(s, Respond([reqs[s] EXCEPT !.id = promptSeq + 1], 201))
  /\ UNCHANGED promptFrame

\* The update; with no key to set the statement cannot be built and the
\* handler answers 500; with no row of that id it answers 404.
PromptUpdate(s) ==
  /\ reqs[s].kind = "patchPrompt" /\ reqs[s].pc = "update"
  /\ LET data == reqs[s].prompt
     IN  IF data.name = "undefined" /\ data.content = "undefined"
            /\ data.isDefault = "undefined"
         THEN /\ UNCHANGED systemPrompts
              /\ Continue(s, Respond(reqs[s], 500))
         ELSE /\ systemPrompts' = setSystemPrompt(reqs[s].id, data)
              /\ Continue(s, Respond(reqs[s],
                   IF RowOf(systemPrompts, reqs[s].id, NoPromptRow) = NoPromptRow
                   THEN 404 ELSE 200))
  /\ UNCHANGED <<promptSeq, promptFrame>>

\* DELETE /api/prompts/:id: deleteSystemPrompt selects the row and throws
\* when it is the default.
DeletePrompt(s) ==
  \E param \in Params(promptSeq) :
    LET id == parseInt(param)
        r == ParamReq("deletePrompt", "delete", param)
        prompt == RowOf(systemPrompts, id, NoPromptRow)
    IN  /\ IF id = NaN
           THEN Begin(s, Respond(r, 400))
           ELSE IF prompt.isDefault
           THEN Begin(s, Respond(r, 500))
           ELSE Begin(s, r)
        /\ UNCHANGED <<prompts, promptFrame>>

PromptDelete(s) ==
  /\ reqs[s].kind = "deletePrompt" /\ reqs[s].pc = "delete"
  /\ systemPrompts' = removeSystemPrompt(reqs[s].id)
  /\ Continue(s, Respond(reqs[s], 204))
  /\ UNCHANGED <<promptSeq, promptFrame>>

\* ------------------------------------------- GithubService, called directly
\* The repository operations of GithubService and the first GitHub call each
\* makes after its guard (generateRepositorySummary starts with
\* getRepositoryInfo).
RepositoryOperations ==
  {"getRepositoryInfo", "getRepositoryContents", "getFileContent", "commitFile",
   "getBranches", "createPullRequest", "generateRepositorySummary"}

firstCall(op) ==
  CASE op \in {"getRepositoryInfo", "generateRepositorySummary"} -> "repos.get"
    [] op \in {"getRepositoryContents", "getFileContent", "commitFile"} -> "repos.getContent"
    [] op = "getBranches" -> "repos.listBranches"
    [] op = "createPullRequest" -> "pulls.create"

\* A call of a method has returned or thrown: the caller keeps what its last
\* initialize returned, the GitHub call the method made and whether it threw.
Returned(r) ==
  [IdleReq EXCEPT !.kind = r.kind, !.pc = "done", !.initialized = r.initialized,
                  !.call = r.call, !.thrown = r.thrown]

\* A caller that awaits each call before the next calls initialize ...
ServiceInitialize(s) ==
  \E credentials \in CredentialBodies :
    /\ Begin(s, [NewReq("initialize", "auth", 0) EXCEPT !.cred = credentials])
    /\ githubService' = initializeBegin(credentials)
    /\ UNCHANGED store

\* ... users.getAuthenticated answers: initialize returns false or true ...
ServiceInitialized(s) ==
  /\ reqs[s].kind = "initialize" /\ reqs[s].pc = "auth"
  /\ \/ /\ githubService' = initializeFailed
        /\ Continue(s, Returned(reqs[s]))
     \/ /\ UNCHANGED githubService
        /\ Continue(s, Returned([reqs[s] EXCEPT !.initialized = TRUE]))
  /\ UNCHANGED store

\* ... or setRepository ...
ServiceSetRepository(s) ==
  \E coordinates \in RepoCoordinates :
    /\ Begin(s, Returned([reqs[s] EXCEPT !.kind = "setRepository", !.call = NoCall,
                                         !.thrown = FALSE]))
    /\ githubService' = setRepository(githubService, RepoInfoOf(coordinates))
    /\ UNCHANGED store

\* ... or a repository operation: its guard throws, or its first GitHub
\* call is made ...
ServiceOperation(s) ==
  \E op \in RepositoryOperations :
    /\ IF clientReady(githubService)
       THEN Begin(s, [NewReq(op, "github", 0) EXCEPT
                        !.initialized = reqs[s].initialized,
                        !.call = githubCall(githubService, firstCall(op), "", "", "")])
       ELSE Begin(s, Returned([reqs[s] EXCEPT !.kind = op, !.call = NoCall,
                                             !.thrown = TRUE]))
    /\ UNCHANGED <<store, githubService>>

\* ... whose calls are answered: the operation returns, or throws what
\* GitHub answered.
ServiceOperationReturns(s) ==
  /\ reqs[s].kind \in RepositoryOperations /\ reqs[s].pc = "github"
  /\ \E thrown \in BOOLEAN : Continue(s, Returned([reqs[s] EXCEPT !.thrown = thrown]))
  /\ UNCHANGED <<store, githubService>>

\* ------------------------------------------------------- specifications
\* The number of requests the run of all the store's handlers accepts.
StoreRequests == 4

\* The number of session, chat and prompt requests the run of every handler
\* accepts, as its first requests.
ChatRequests == 2

\* The number of requests the run of interleaving prompt handlers accepts.
PromptRequests == 3

ArriveGithub(s) ==
  \/ PostCredentials(s)
  \/ DeleteCredentials(s)
  \/ PostRepository(s)
  \/ DeleteRepository(s)
  \/ PostFile(s)
  \/ DeleteFile(s)
  \/ PostCommit(s)

StepGithub(s) ==
  \/ CredentialsAuth(s)
  \/ InsertCredentials(s)
  \/ RepositoryAuth(s)
  \/ RepositoryInfo(s)
  \/ InsertRepository(s)
  \/ InsertFile(s)
  \/ CommitGetRepository(s)
  \/ CommitGetCredentials(s)
  \/ CommitAuth(s)
  \/ CommitGetContent(s)
  \/ CommitWrite(s)
  \/ CommitUpdateStatus(s)

ArriveAnalysis(s) ==
  \/ GetCredentials(s)
  \/ GetRepository(s)
  \/ GetFiles(s)
  \/ PostAnalyze(s)
  \/ PostAssist(s)

StepAnalysis(s) ==
  \/ AnalysisGetCredentials(s)
  \/ AnalyzeAuth(s)
  \/ AnalyzeRepoInfo(s)
  \/ AnalyzeContents(s)
  \/ AnalyzeCompletion(s)
  \/ AnalyzeUpdate(s)
  \/ AssistAuth(s)
  \/ AssistFileContent(s)
  \/ AssistCompletion(s)

ArriveSession(s) ==
  \/ GetSession(s)
  \/ PatchSession(s)

ArriveChat(s) ==
  \/ PostSession(s)
  \/ DeleteSession(s)
  \/ PostChat(s)

StepChat(s) ==
  \/ ChatCreateSession(s)
  \/ ChatCompletion(s)
  \/ ChatSaveUser(s)
  \/ ChatSaveAssistant(s)

ArrivePrompt(s) ==
  \/ PostPrompt(s)
  \/ PatchPrompt(s)
  \/ DeletePrompt(s)

StepPrompt(s) ==
  \/ PromptClearDefaults(s)
  \/ PromptInsert(s)
  \/ PromptUpdate(s)
  \/ PromptDelete(s)

\* The GitHub handlers, requests served one at a time.
NextGithub == ArriveGithub(1) \/ StepGithub(1)

SpecGithub == InitKeySet /\ [][NextGithub]_vars

\* The GitHub handlers, requests interleaving at their await points.
NextGithubConcurrent == \E s \in Slots : ArriveGithub(s) \/ StepGithub(s)

SpecGithubConcurrent == InitKeySet /\ [][NextGithubConcurrent]_vars

\* The prompt handlers, requests served one at a time.
NextPrompts == ArrivePrompt(1) \/ StepPrompt(1)

SpecPrompts == InitKeySet /\ [][NextPrompts]_vars

\* Every handler that inserts or deletes rows, requests served one at a time.
NextStore ==
  \/ /\ served < StoreRequests
     /\ ArriveGithub(1) \/ ArriveChat(1)
  \/ StepGithub(1)
  \/ StepChat(1)

SpecStore == Init /\ [][NextStore]_vars

\* The GitHub handlers with the reads, analyze and assist, requests served
\* one at a time.
NextRepositories ==
  \/ ArriveGithub(1) \/ StepGithub(1)
  \/ ArriveAnalysis(1) \/ StepAnalysis(1)

SpecRepositories == InitKeySet /\ [][NextRepositories]_vars

\* Every handler, requests served one at a time.  The session, chat and
\* prompt handlers and the GitHub handlers work on different tables: a run
\* serves its session, chat and prompt requests first.
ArriveChatOrPrompt(s) ==
  \/ ArriveSession(s)
  \/ ArriveChat(s)
  \/ ArrivePrompt(s)

ArriveRepositories(s) ==
  \/ ArriveGithub(s)
  \/ ArriveAnalysis(s)

Step(s) ==
  \/ StepGithub(s)
  \/ StepAnalysis(s)
  \/ StepChat(s)
  \/ StepPrompt(s)

NextServer ==
  \/ served < ChatRequests /\ ArriveChatOrPrompt(1)
  \/ served < StoreRequests /\ ArriveRepositories(1)
  \/ Step(1)

SpecServer == Init /\ [][NextServer]_vars

\* The prompt handlers, requests interleaving at their database statements.
NextPromptsConcurrent ==
  \E s \in Slots :
    \/ served < PromptRequests /\ ArrivePrompt(s)
    \/ StepPrompt(s)

SpecPromptsConcurrent == InitKeySet /\ [][NextPromptsConcurrent]_vars

\* The methods of GithubService, each call awaited before the next.
NextService ==
  \/ ServiceInitialize(1)
  \/ ServiceInitialized(1)
  \/ ServiceSetRepository(1)
  \/ ServiceOperation(1)
  \/ ServiceOperationReturns(1)

SpecService == InitKeySet /\ [][NextService]_vars

\* ------------------------------------------------------------- properties
Defaults == {p \in systemPrompts : p.isDefault}

Quiescent == \A s \in Slots : ~InFlight(s)

\* C1: once every createSystemPrompt, updateSystemPrompt and
\* deleteSystemPrompt call made so far has completed (calls run one after
\* the other), at most one SystemPrompt row has isDefault = true.
C1_AtMostOneDefault == Quiescent => Cardinality(Defaults) <= 1

\* An update with isDefault = true has moved the default from the prompt
\* created at startup to prompt 2.
C1_Witness ==
  /\ reqs[1].kind = "patchPrompt" /\ reqs[1].pc = "done" /\ reqs[1].status = 200
  /\ reqs[1].id = 2 /\ reqs[1].prompt.isDefault = "true"
  /\ RowOf(systemPrompts, 2, NoPromptRow).isDefault
  /\ RowOf(systemPrompts, 1, NoPromptRow).id = 1
  /\ ~RowOf(systemPrompts, 1, NoPromptRow).isDefault

\* C2: the status of a GithubFileChange changes only from pending to
\* committed or from pending to failed; a committed or failed file change
\* keeps its status whatever requests follow.
C2_StatusOnlyLeavesPending ==
  [][\A f \in githubFileChanges : \A g \in githubFileChanges' :
       (g.id = f.id /\ g.status # f.status)
         => (f.status = "pending" /\ g.status \in {"committed", "failed"})]_vars

\* C3: every stored GithubFileChange has status pending, committed or
\* failed, whatever create, commit and delete requests were served.
C3_StatusInRange == \A f \in githubFileChanges : f.status \in Statuses

\* A file change that was committed and whose next commit failed.
C3_Witness ==
  \E f \in githubFileChanges : f.status = "failed" /\ f.commitUrl \in Urls

\* C4: a row that POST /api/github/repositories/:id/files adds to
\* github_file_changes has status pending and no commit URL, whatever the
\* request body held besides path, content and commitMessage, and it is
\* the row the 201 response returns.
C4_CreatedPending ==
  [][\A g \in githubFileChanges' :
       (\A f \in githubFileChanges : f.id # g.id)
         => /\ g.status = "pending"
            /\ g.commitUrl = NoUrl
            /\ \E s \in Slots : /\ reqs[s].kind = "postFile"
                                /\ reqs'[s].status = 201
                                /\ reqs'[s].fcOut = g]_vars

C4_Witness ==
  /\ reqs[1].kind = "postFile" /\ reqs[1].status = 201
  /\ reqs[1].fcOut \in githubFileChanges
  /\ reqs[1].fcOut.status = "pending" /\ reqs[1].fcOut.commitUrl = NoUrl

\* C5: the step that serves DELETE /api/github/credentials/:id for c leaves
\* no repository with credentialsId = c and no file change of such a
\* repository, and removes nothing else: the other credentials, the
\* repositories of other credentials and their file changes are as before.
C5_DeleteCredentialsCascades ==
  [][\A s \in Slots :
       (served' = served + 1 /\ reqs'[s].kind = "deleteCredentials"
          /\ reqs'[s].pc = "done" /\ reqs'[s].status = 204)
       => LET c == reqs'[s].id
              own == {r \in githubRepositories : r.credentialsId = c}
          IN  /\ \A r \in githubRepositories' : r.credentialsId # c
              /\ \A f \in githubFileChanges' : \A r \in own : f.repositoryId # r.id
              /\ githubCredentials' = {x \in githubCredentials : x.id # c}
              /\ githubRepositories' = githubRepositories \ own
              /\ githubFileChanges' =
                   {f \in githubFileChanges : \A r \in own : f.repositoryId # r.id}]_vars

\* Credentials 1 were deleted with the one repository and the one file
\* change below them, and credentials 2 are still there: the five requests
\* of the run are the four inserts and the delete.
C5_Witness ==
  /\ reqs[1].kind = "deleteCredentials" /\ reqs[1].status = 204 /\ reqs[1].id = 1
  /\ served = 5 /\ credSeq = 2 /\ repoSeq = 1 /\ fileSeq = 1
  /\ \E x \in githubCredentials : x.id = 2
  /\ githubRepositories = {} /\ githubFileChanges = {}

\* C6: every Message references an existing ChatSession, every
\* GithubRepository an existing GithubCredentials row and every
\* GithubFileChange an existing GithubRepository, in every reachable state.
C6_ReferentialIntegrity ==
  /\ \A m \in messages : \E c \in chatSessions : c.id = m.sessionId
  /\ \A r \in githubRepositories : \E c \in githubCredentials : c.id = r.credentialsId
  /\ \A f \in githubFileChanges : \E r \in githubRepositories : r.id = f.repositoryId

\* A message, a repository and a file change are stored.
C6_Witness ==
  messages # {} /\ githubRepositories # {} /\ githubFileChanges # {}

\* The handlers that work on a repository through githubService.
GithubBacked == {"commit", "postRepository"}

\* C7: when two GitHub-backed requests are in flight together, the GitHub
\* call a request has made carries the token of the credentials row and the
\* owner, repo and branch that this request itself loaded.
C7_RequestsUseOwnCredentials ==
  \A s \in Slots : \A t \in Slots \ {s} :
    (/\ InFlight(s) /\ InFlight(t)
     /\ reqs[s].kind \in GithubBacked /\ reqs[t].kind \in GithubBacked
     /\ reqs[s].call # NoCall)
    => /\ reqs[s].call.token = reqs[s].cred.token
       /\ reqs[s].call.target = RepoInfoOf(reqs[s].repo)

C9_OnlyStatusChanges ==
  [][\A f \in githubFileChanges : \A g \in githubFileChanges' :
       g.id = f.id
         => /\ g.repositoryId = f.repositoryId /\ g.path = f.path
            /\ g.content = f.content /\ g.commitMessage = f.commitMessage
            /\ g # f => \E s \in Slots : /\ reqs[s].kind = "commit"
                                         /\ reqs[s].pc = "updateStatus"
                                         /\ reqs[s].id = f.id]_vars

\* Two file changes of which one was committed and the other was not touched.
C9_Witness ==
  \E f \in githubFileChanges : \E g \in githubFileChanges :
    /\ f.status = "committed" /\ f.path = "a.ts" /\ f.content = "x"
    /\ f.commitMessage = "m1"
    /\ g.id # f.id /\ g.status = "pending"

\* C10: a createSystemPrompt call with isDefault = true ends with the new
\* prompt the default and no other prompt default; a call with isDefault
\* false or left out changes the isDefault of no existing prompt and
\* inserts a prompt that is not the default.
C10_CreateDefault ==
  [][\A s \in Slots :
       /\ (reqs'[s].kind = "postPrompt" /\ served' = served + 1)
            => systemPrompts' = systemPrompts
       /\ (reqs[s].kind = "postPrompt" /\ InFlight(s) /\ reqs'[s] # reqs[s])
            => LET isDefault == reqs[s].prompt.isDefault = "true"
                   new == RowOf(systemPrompts', promptSeq + 1, NoPromptRow)
               IN  /\ ~isDefault =>
                        \A p \in systemPrompts : \E q \in systemPrompts' :
                          q.id = p.id /\ q.isDefault = p.isDefault
                   /\ reqs'[s].pc = "done" =>
                        /\ reqs'[s].status = 201
                        /\ new.id = promptSeq + 1
                        /\ new.isDefault = isDefault
                        /\ isDefault => Defaults' = {new}]_vars

\* A prompt created with isDefault = true is the default and the prompt
\* created at startup no longer is.
C10_Witness ==
  /\ reqs[1].kind = "postPrompt" /\ reqs[1].pc = "done" /\ reqs[1].status = 201
  /\ reqs[1].prompt.isDefault = "true"
  /\ RowOf(systemPrompts, reqs[1].id, NoPromptRow).isDefault
  /\ RowOf(systemPrompts, 1, NoPromptRow).id = 1
  /\ ~RowOf(systemPrompts, 1, NoPromptRow).isDefault

\* A request whose body does not match its entity's insert schema.
BodyMismatch(r) ==
  \/ r.kind \in {"postSession", "patchSession"} /\ ~insertChatSessionSchema(r.session)
  \/ r.kind = "postPrompt" /\ r.prompt.content = Undefined

\* C11: a POST or PATCH request whose body does not match the entity's
\* insert schema is answered 400 and writes nothing to the database.
C11_MismatchAnswers400 ==
  [][\A s \in Slots :
       (served' = served + 1 /\ reqs'[s] # reqs[s] /\ BodyMismatch(reqs'[s]))
         => /\ reqs'[s].pc = "done"
            /\ reqs'[s].status = 400
            /\ UNCHANGED store]_vars

\* The handlers that address a row by the :id of the path, and the ids of
\* the rows of the table each of them addresses.
DeleteKinds == {"deleteSession", "deletePrompt", "deleteCredentials", "deleteRepository",
                "deleteFile"}

LookupKinds == {"getSession", "patchSession", "patchPrompt", "getRepository", "analyze",
                "postFile", "commit"}

ByIdKinds == DeleteKinds \cup LookupKinds \cup {"getFiles"}

AddressedIds(kind) ==
  IF kind \in {"getSession", "patchSession", "deleteSession"}
  THEN {c.id : c \in chatSessions}
  ELSE IF kind \in {"patchPrompt", "deletePrompt"}
  THEN {p.id : p \in systemPrompts}
  ELSE IF kind = "deleteCredentials"
  THEN {c.id : c \in githubCredentials}
  ELSE IF kind \in {"deleteFile", "commit"}
  THEN {f.id : f \in githubFileChanges}
  ELSE {r.id : r \in githubRepositories}

IsInteger(param) == \E i \in 1 .. Len(IdStrings) : IdStrings[i] = param

\* A PATCH body without any field.
EmptyBody(r) ==
  /\ r.prompt.name = Undefined /\ r.prompt.content = Undefined
  /\ r.prompt.isDefault = Undefined

ResponseStatuses == {200, 201, 204, 400, 401, 404, 429, 500}

C14_VendorFailure ==
  [][\A s \in Slots :
       /\ (reqs[s].kind = "chat" /\ reqs[s].pc = "llm" /\ reqs'[s].llmFailed)
            => /\ reqs'[s].pc = "done"
               /\ reqs'[s].status = IF reqs'[s].llmStatus \in {401, 429, 500}
                                     THEN reqs'[s].llmStatus ELSE 500
               /\ UNCHANGED <<messages, messageSeq>>
       /\ (reqs'[s].kind = "chat" /\ reqs'[s] # reqs[s] /\ messages' # messages)
            => /\ reqs[s].pc \in {"saveUser", "saveAssistant"}
               /\ ~reqs[s].llmFailed /\ ~reqs'[s].llmFailed]_vars

\* After an earlier chat stored its messages, a completion failed with 503
\* and the request was answered 500.
C14_Witness ==
  /\ reqs[1].kind = "chat" /\ reqs[1].pc = "done"
  /\ reqs[1].llmFailed /\ reqs[1].llmStatus = 503 /\ reqs[1].status = 500
  /\ messages # {}

\* The handlers that perform a GitHub repository operation.
GithubOperations == {"postRepository", "analyze", "commit", "assist"}

\* C15: in add repository, analyze, commit and assist a GitHub repository
\* operation is made only after initialize has succeeded in the same
\* request with the credentials row read from storage, and with the
\* repository set to the owner, repo and branch of the request's repository
\* (the stored row; for add repository the validated body that is stored
\* afterwards).  When the credentials row is missing the answer is 404,
\* when initialize returns false it is 401, and in both cases no GitHub
\* repository operation was made and nothing is written; such a request
\* writes to the database only after its initialize has succeeded.
C15_InitializeBeforeOperation ==
  [][\A s \in Slots :
       /\ (reqs'[s].kind \in GithubOperations /\ reqs'[s].call # NoCall)
            => /\ reqs'[s].initialized
               /\ reqs'[s].cred \in githubCredentials'
               /\ reqs'[s].call.token = reqs'[s].cred.token
               /\ reqs'[s].call.target = RepoInfoOf(reqs'[s].repo)
               /\ reqs'[s].kind # "postRepository" => reqs'[s].repo \in githubRepositories'
       /\ (/\ reqs[s].kind \in GithubOperations /\ reqs[s].pc = "getCredentials"
           /\ reqs'[s] # reqs[s]
           /\ \A c \in githubCredentials : c.id # reqs[s].repo.credentialsId)
            => /\ reqs'[s].pc = "done" /\ reqs'[s].status = 404
               /\ reqs[s].call = NoCall
               /\ UNCHANGED <<store, githubService>>
       /\ (/\ served' = served + 1 /\ reqs'[s].kind = "postRepository"
           /\ reqs'[s].pc = "done")
            => /\ reqs'[s].status = 404
               /\ UNCHANGED <<store, githubService>>
       /\ (/\ reqs[s].kind \in GithubOperations /\ reqs[s].pc = "auth"
           /\ githubService'.octokit = NoToken)
            => /\ reqs'[s].pc = "done" /\ reqs'[s].status = 401
               /\ reqs[s].call = NoCall /\ reqs[s].calls = 0
               /\ UNCHANGED store
       /\ (reqs[s].kind \in GithubOperations /\ InFlight(s) /\ store' # store)
            => reqs[s].initialized]_vars

\* An analysis is reading the root of repository o2/r2 with the token of
\* the credentials row it loaded.
C15_Witness ==
  /\ reqs[1].kind = "analyze" /\ reqs[1].pc = "contents" /\ reqs[1].initialized
  /\ reqs[1].call.op = "repos.getContent" /\ reqs[1].call.token = "tokB"
  /\ reqs[1].cred.token = "tokB" /\ reqs[1].call.target.owner = "o2"

C17_OneDefaultAfterOverlap ==
  (\A s \in Slots : reqs[s].pc \in {"idle", "done"})
    => \A p \in systemPrompts : \A q \in systemPrompts :
         (p.isDefault /\ q.isDefault) => p.id = q.id

\* A messages value the chat endpoint is to refuse: not an array, or with
\* an element that lacks a role or a content or has a role outside user,
\* assistant and system.
InvalidMessages(msgs) ==
  \/ msgs = NotAnArray
  \/ \E i \in 1 .. Len(msgs) :
       \/ msgs[i] = NullMessage
       \/ msgs[i].role = "" \/ msgs[i].content = ""
       \/ msgs[i].role \notin {"user", "assistant", "system"}

\* C18: POST /api/chat with messages missing or not an array, with a
\* message that lacks a role or content, or with a role outside user,
\* assistant and system is answered 400; no session is created, no message
\* is stored and the LLM is not called.
C18_InvalidChatAnswers400 ==
  [][\A s \in Slots :
       (served' = served + 1 /\ reqs'[s].kind = "chat" /\ InvalidMessages(reqs'[s].msgs))
         => /\ reqs'[s].pc = "done" /\ reqs'[s].status = 400
            /\ reqs'[s].calls = 0
            /\ UNCHANGED store]_vars

\* C19: no request retries a vendor call: a chat request asks for the
\* completion at most once and a commit request calls create-or-update-file
\* at most once; the step in which the vendor answers makes no new call,
\* and after a failure the chat request is answered at once and the commit
\* request only records the failure and answers.
C19_NoRetry ==
  [][\A s \in Slots :
       /\ reqs'[s].calls <= 1
       /\ (reqs[s].pc \in {"llm", "write"} /\ reqs'[s] # reqs[s])
            => /\ reqs'[s].calls = reqs[s].calls
               /\ reqs'[s].pc \notin {"llm", "write"}
       /\ (reqs[s].kind = "chat" /\ reqs[s].pc = "llm" /\ reqs'[s].llmFailed)
            => reqs'[s].pc = "done"
       /\ (/\ reqs[s].kind = "commit" /\ reqs[s].pc = "write" /\ reqs'[s] # reqs[s]
           /\ ~reqs'[s].result.success)
            => reqs'[s].pc = "updateStatus"
       /\ (reqs[s].kind = "commit" /\ reqs[s].pc = "updateStatus" /\ reqs'[s] # reqs[s])
            => /\ reqs'[s].pc = "done"
               /\ reqs'[s].calls = reqs[s].calls]_vars

\* A commit whose one write failed was answered 500 with the row failed.
C19_Witness ==
  /\ reqs[1].kind = "commit" /\ reqs[1].pc = "done" /\ reqs[1].status = 500
  /\ reqs[1].calls = 1
  /\ \E f \in githubFileChanges : f.id = reqs[1].id /\ f.status = "failed"

C21_CommittedAfterSuccessfulWrite ==
  [][\A g \in githubFileChanges' :
       (g.status = "committed"
          /\ \A f \in githubFileChanges : f.id = g.id => f.status # "committed")
         => \E s \in Slots :
              /\ reqs[s].kind = "commit" /\ reqs[s].pc = "updateStatus"
              /\ reqs[s].id = g.id /\ reqs[s].fc.id = g.id
              /\ reqs[s].calls = 1
              /\ reqs[s].call.op = "repos.createOrUpdateFileContents"
              /\ reqs[s].result.success
              /\ g.commitUrl = reqs[s].result.url
              /\ \E f \in githubFileChanges : f.id = g.id]_vars

\* A file change whose first commit failed was committed by a second one.
C21_Witness ==
  /\ reqs[1].kind = "commit" /\ reqs[1].pc = "done" /\ reqs[1].status = 200
  /\ served = 5 /\ fileSeq = 1
  /\ \E f \in githubFileChanges : f.id = 1 /\ f.status = "committed"

\* The steps of a commit request that come before commitFile's write.
BeforeWrite(s) ==
  \/ ~InFlight(s)
  \/ reqs[s].pc \in {"getRepository", "getCredentials", "auth"}

\* C22: a commit request answered 400, 404 or 401 stopped before the GitHub
\* write; no step it took changed a file change row (status and commitUrl
\* included) and it made no create-or-update call.
C22_EarlyExitChangesNothing ==
  [][\A s \in Slots :
       (reqs'[s] # reqs[s] /\ reqs'[s].kind = "commit")
         => /\ (reqs'[s].pc = "done" /\ reqs'[s].status \in {400, 401, 404})
                 => BeforeWrite(s)
            /\ BeforeWrite(s)
                 => /\ githubFileChanges' = githubFileChanges
                    /\ reqs'[s].calls = 0
                    /\ reqs'[s].call.op # "repos.createOrUpdateFileContents"]_vars

\* A commit was answered 404 because the repository of its pending file
\* change was deleted while the request was in flight.
C22_Witness ==
  \E s \in Slots :
    /\ reqs[s].kind = "commit" /\ reqs[s].pc = "done" /\ reqs[s].status = 404
    /\ reqs[s].id = 1 /\ fileSeq = 1
    /\ githubRepositories = {}

\* C23: a GithubCredentials row is stored only by the insert of a POST
\* credentials request whose token GitHub accepted, and a rejected token is
\* answered 401 with nothing stored.  A GithubRepository row is stored only
\* by the insert of a POST repositories request that, in this order, found
\* its credentials row (else 404), had the token accepted (else 401) and
\* had its repos.get lookup succeed (else 404); each refusal stores nothing.
C23_StoredAfterGithubAccepted ==
  [][/\ \A c \in githubCredentials' \ githubCredentials :
          \E s \in Slots :
            /\ reqs[s].kind = "postCredentials" /\ reqs[s].pc = "insert"
            /\ reqs[s].initialized
            /\ c.token = reqs[s].cred.token /\ c.username = reqs[s].cred.username
            /\ reqs'[s].pc = "done" /\ reqs'[s].status = 201
     /\ \A r \in githubRepositories' \ githubRepositories :
          \E s \in Slots :
            /\ reqs[s].kind = "postRepository" /\ reqs[s].pc = "insert"
            /\ reqs[s].cred # NoCred /\ reqs[s].cred.id = r.credentialsId
            /\ reqs[s].initialized
            /\ reqs[s].call.op = "repos.get" /\ reqs[s].call.token = reqs[s].cred.token
            /\ reqs[s].result.success
            /\ reqs'[s].pc = "done" /\ reqs'[s].status = 201
     /\ \A s \in Slots :
          (reqs'[s] # reqs[s] /\ reqs'[s].kind \in {"postCredentials", "postRepository"})
            => \* the order of the steps of one request
               /\ reqs'[s].pc = "insert"
                    => /\ reqs[s].kind = reqs'[s].kind
                       /\ reqs[s].pc = IF reqs[s].kind = "postCredentials"
                                       THEN "auth" ELSE "repoInfo"
               /\ reqs'[s].pc = "repoInfo"
                    => /\ reqs[s].kind = "postRepository" /\ reqs[s].pc = "auth"
                       /\ reqs[s].cred # NoCred
                       /\ reqs'[s].initialized
               /\ reqs'[s].pc = "auth" => ~InFlight(s)
               /\ (reqs'[s].pc = "auth" /\ reqs'[s].kind = "postRepository")
                    => reqs'[s].cred \in githubCredentials
               \* the refusals
               /\ (reqs'[s].pc = "done" /\ reqs'[s].status \in {401, 404})
                    => UNCHANGED <<githubCredentials, githubRepositories>>
               /\ (reqs'[s].pc = "done" /\ ~InFlight(s))
                    => /\ reqs'[s].kind = "postRepository" /\ reqs'[s].status = 404
                       /\ getGithubCredentials(reqs'[s].repo.credentialsId) = NoCred
               /\ (reqs'[s].pc = "done" /\ InFlight(s) /\ reqs[s].pc = "auth")
                    => reqs'[s].status = 401 \/ githubService.octokit = NoToken
               /\ (reqs'[s].pc = "done" /\ InFlight(s) /\ reqs[s].pc = "repoInfo")
                    => reqs'[s].status = 404]_vars

\* A repository row was stored after one request was refused for its
\* credentials id and another for its token.
C23_Witness ==
  /\ reqs[1].kind = "postRepository" /\ reqs[1].pc = "done" /\ reqs[1].status = 201
  /\ Cardinality(githubRepositories) = 1 /\ repoSeq = 1
  /\ Cardinality(githubCredentials) = 1 /\ served = 5

\* C24: when a POST /api/chat request has been answered 400, 401, 429 or
\* 500, the stored chat sessions and messages are those stored when the
\* request arrived, also when the request carried no sessionId.
C24_ChatErrorLeavesStore ==
  \A s \in Slots :
    (reqs[s].kind = "chat" /\ reqs[s].pc = "done"
       /\ reqs[s].status \in {400, 401, 429, 500})
      => /\ chatSessions = reqs[s].before.chatSessions
         /\ messages = reqs[s].before.messages

\* C25: a PATCH /api/prompts/:id request for an id that no prompt has (the
\* request that is answered 404) modifies no SystemPrompt row in any of its
\* steps, so the default prompt is still the default, also when the body
\* set isDefault to true.
C25_MissingPromptPatchModifiesNothing ==
  [][\A s \in Slots :
       (reqs[s].kind = "patchPrompt" /\ InFlight(s) /\ reqs'[s] # reqs[s]
          /\ RowOf(systemPrompts, reqs[s].id, NoPromptRow) = NoPromptRow)
         => /\ systemPrompts' = systemPrompts
            /\ Defaults' = Defaults]_vars

WithTokens(credentials, tokens) ==
  {[c EXCEPT !.token = tokens[c.id]] : c \in credentials}

CredentialsKinds == {"getCredentials", "postCredentials", "deleteCredentials"}

\* C27: the response of GET /api/github/credentials carries, for each stored
\* row, its id, username, createdAt and updatedAt and nothing else; the 201
\* response of POST /api/github/credentials carries the id, username and
\* createdAt of the inserted row and nothing else; every other response of
\* the credentials endpoints carries no row; and the GET response is the
\* same for every store that differs from the stored one only in tokens.
C27_ResponsesHideTokens ==
  /\ \A s \in Slots :
       (reqs[s].kind \in CredentialsKinds /\ reqs[s].pc = "done")
         => /\ reqs[s].kind = "getCredentials"
                 => /\ reqs[s].status = 200
                    /\ \A r \in reqs[s].json :
                         DOMAIN r = {"id", "username", "createdAt", "updatedAt"}
                    /\ {r.id : r \in reqs[s].json} = {c.id : c \in githubCredentials}
                    /\ \A r \in reqs[s].json : \E c \in githubCredentials :
                         /\ r.id = c.id /\ r.username = c.username
                         /\ r.createdAt = c.createdAt /\ r.updatedAt = c.updatedAt
            /\ (reqs[s].kind = "postCredentials" /\ reqs[s].status = 201)
                 => /\ Cardinality(reqs[s].json) = 1
                    /\ \A r \in reqs[s].json :
                         /\ DOMAIN r = {"id", "username", "createdAt"}
                         /\ \E c \in githubCredentials :
                              /\ r.id = c.id /\ r.username = c.username
                              /\ r.createdAt = c.createdAt
            /\ (reqs[s].kind # "getCredentials" /\ reqs[s].status # 201)
                 => reqs[s].json = {}
  /\ \A tokens \in [{c.id : c \in githubCredentials} -> Tokens] :
       safeCredentials(WithTokens(githubCredentials, tokens))
         = safeCredentials(githubCredentials)

\* Two rows with different tokens are stored and have been listed.
C27_Witness ==
  /\ reqs[1].kind = "getCredentials" /\ reqs[1].pc = "done"
  /\ Cardinality(reqs[1].json) = 2
  /\ \E c, d \in githubCredentials : c.token # d.token

\* The message row a step of a chat request inserts.
ChatRow(r, role, content) ==
  [id |-> messageSeq + 1, sessionId |-> r.id, role |-> role, content |-> content,
   timestamp |-> insertedAt(messageSeq)]

====
